---- MODULE Spec2Model ----
(***************************************************************************)
(* The two-track sequencer of piano.py: sequencer_start, sequencer_stop,  *)
(* sequencer_update, the triole look-ahead and the host operations of the *)
(* main loop (BPM up/down, reload), with the sink calls (play_note /       *)
(* stop_note) recorded per operation.                                      *)
(***************************************************************************)
EXTENDS Integers, Sequences, FiniteSets, TLC

VARIABLES
    SEQUENCE,           \* label -> list of events                 (piano.py:586)
    BPM,                \* shared tempo                            (piano.py:585)
    is_playing,         \*                                         (piano.py:587)
    track_state,        \* label -> per-track timing state         (piano.py:590)
    PLAYING_SEQ_NOTES,  \* notes currently playing from sequencer  (piano.py:197)
    now,                \* last value read from pygame.time.get_ticks()
    crashed,            \* an exception left sequencer_update and ended the main loop
    lastOp,             \* history: the operation that produced this state
    sink,               \* history: play_note/stop_note calls made by that operation
    tickInfo,           \* history: per track, what the last sequencer_update did
    late,               \* history: per track, lateness of its last dispatch
    maxGap,             \* history: largest clock gap between scheduler calls since Start
    bal,                \* history: per pitch, note-ons minus note-offs of this session
    starts,             \* history: Starts that began a playback so far
    reloads,            \* history: reloads so far
    bpmChanges,         \* history: presses of Up/Down so far
    loaded              \* history: the text of the file SEQUENCE was loaded from

vars == <<SEQUENCE, BPM, is_playing, track_state, PLAYING_SEQ_NOTES, now, crashed,
          lastOp, sink, tickInfo, late, maxGap, bal, starts, reloads, bpmChanges,
          loaded>>

\* ------------------------------------------------------------------ bounds
MaxNow == 1250          \* the clock is explored up to this many milliseconds
MaxBpmChanges == 1      \* presses of Up/Down in one run
MaxReloads == 1         \* reloads in one run
MaxStarts == 2          \* playbacks started in one run (a restart while playing counts)
Gaps == {0, 250}        \* clock advance between two reads of the clock (ms)

\* ------------------------------------------------------------------ rationals
\* A beat count or a scale is a fraction <<n, d>> with d > 0.
RECURSIVE GCD(_, _)
GCD(a, b) == IF b = 0 THEN a ELSE GCD(b, a % b)

Abs(x) == IF x < 0 THEN -x ELSE x

RNorm(r) ==
    LET g == GCD(Abs(r[1]), r[2])
    IN  IF r[1] = 0 THEN <<0, 1>> ELSE <<r[1] \div g, r[2] \div g>>

RMul(a, b) == RNorm(<<a[1] * b[1], a[2] * b[2]>>)
RAdd(a, b) == RNorm(<<a[1] * b[2] + b[1] * a[2], a[2] * b[2]>>)
RDiv(a, b) == RNorm(<<a[1] * b[2], a[2] * b[1]>>)      \* b > 0
RLeq(a, b) == a[1] * b[2] <= b[1] * a[2]
RLess(a, b) == a[1] * b[2] < b[1] * a[2]
RMax(a, b) == IF RLess(a, b) THEN b ELSE a
REq(a, b) == a[1] * b[2] = b[1] * a[2]
RZero == <<0, 1>>
ROne == <<1, 1>>

\* Truncation toward zero of a / b, b > 0: Python's int() of a float.
TruncDiv(a, b) == IF a >= 0 THEN a \div b ELSE -((-a) \div b)

\* ------------------------------------------------------------------ events
\* An event of a track, as parse_sequence_line builds it (piano.py:404-438):
\*   ('rest', beats) | (int, beats) | ([int, ...], beats)
\*   | ([(int, dur), ...], None) | ('__TRIOLE__', unit)
DurQ == <<1, 1>>       \* DURATION_MAP['q']
DurE == <<1, 2>>       \* DURATION_MAP['e']
DurS == <<1, 4>>       \* DURATION_MAP['s']
DurTiny == <<1, 1000>> \* the literal duration "0.001"

RestEv(b) == [kind |-> "rest", pitches |-> <<>>, beats |-> b, durs |-> <<>>]
NoteEv(p, b) == [kind |-> "note", pitches |-> <<p>>, beats |-> b, durs |-> <<>>]
ChordEv(ps, b) == [kind |-> "chord", pitches |-> ps, beats |-> b, durs |-> <<>>]
VarChordEv(ps, ds) == [kind |-> "vchord", pitches |-> ps, beats |-> RZero, durs |-> ds]
TrioleEv(u) == [kind |-> "triole", pitches |-> <<>>, beats |-> u, durs |-> <<>>]

IsTriole(ev) == ev.kind = "triole"

Labels == {"L", "R"}
LabelOrder == <<"L", "R">>   \* dict order of the Score: 'L' is inserted before 'R'

Pitches == {60, 64}

\* ------------------------------------------------------------------ scores
\* Results of load_sequence_from_file for a handful of sequence files.
EmptyScore == [l \in Labels |-> <<>>]    \* also the result of a failed load

\*   L: C4:e E4:e          R: C4:s E4:s C4:s E4:s
ScoreOverlap ==
    [l \in Labels |->
        IF l = "L" THEN <<NoteEv(60, DurE), NoteEv(64, DurE)>>
        ELSE <<NoteEv(60, DurS), NoteEv(64, DurS), NoteEv(60, DurS), NoteEv(64, DurS)>>]

\*   rrrr C4:s             (no label: right hand only)
ScoreRest == [l \in {"R"} |-> <<RestEv(DurS), NoteEv(60, DurS)>>]

\*   R: Triole:q C4:e E4:e C4:e E4:s
ScoreTriole ==
    [l \in Labels |->
        IF l = "L" THEN <<>>
        ELSE <<TrioleEv(DurQ), NoteEv(60, DurE), NoteEv(64, DurE), NoteEv(60, DurE),
               NoteEv(64, DurS)>>]

\*   L: Triole:e C4:s Triole:s E4:s C4:s
\*   R: Triole:e Triole:q [C4:e E4:s] C4+E4:s Triole:q
ScoreNested ==
    [l \in Labels |->
        IF l = "L"
        THEN <<TrioleEv(DurE), NoteEv(60, DurS), TrioleEv(DurS), NoteEv(64, DurS),
               NoteEv(60, DurS)>>
        ELSE <<TrioleEv(DurE), TrioleEv(DurQ), VarChordEv(<<60, 64>>, <<DurE, DurS>>),
               ChordEv(<<60, 64>>, DurS), TrioleEv(DurQ)>>]

\*   R: C4:0.001 E4:s
ScoreTiny ==
    [l \in Labels |->
        IF l = "L" THEN <<>> ELSE <<NoteEv(60, DurTiny), NoteEv(64, DurS)>>]

\*   L: C4:q               R: E4:s
ScoreLong ==
    [l \in Labels |->
        IF l = "L" THEN <<NoteEv(60, DurQ)>> ELSE <<NoteEv(64, DurS)>>]

Scores == {EmptyScore, ScoreOverlap, ScoreRest, ScoreTriole, ScoreNested, ScoreTiny,
           ScoreLong}

\* The files a reload is explored with: a failed load and a right-hand-only file.
ReloadScores == {EmptyScore, ScoreRest}

\* ------------------------------------------------------------------ strings
\* A Python str is a sequence of one-character strings.
Digits == <<"0", "1", "2", "3", "4", "5", "6", "7", "8", "9">>
UpperCase == <<"A", "B", "C", "D", "E", "F", "G", "H", "I", "J", "K", "L", "M",
               "N", "O", "P", "Q", "R", "S", "T", "U", "V", "W", "X", "Y", "Z">>
LowerCase == <<"a", "b", "c", "d", "e", "f", "g", "h", "i", "j", "k", "l", "m",
               "n", "o", "p", "q", "r", "s", "t", "u", "v", "w", "x", "y", "z">>
WhiteSpace == {" ", "\t"}

IsDigitChar(c) == \E i \in DOMAIN Digits : Digits[i] = c
DigitVal(c) == (CHOOSE i \in DOMAIN Digits : Digits[i] = c) - 1

\* str.isdigit()
isdigit(t) == t # <<>> /\ \A i \in DOMAIN t : IsDigitChar(t[i])

\* int() of a string of digits
RECURSIVE NatOf(_)
NatOf(t) ==
    IF t = <<>> THEN 0
    ELSE 10 * NatOf(SubSeq(t, 1, Len(t) - 1)) + DigitVal(t[Len(t)])

\* str.lower()
LowerChar(c) ==
    IF \E i \in DOMAIN UpperCase : UpperCase[i] = c
    THEN LowerCase[CHOOSE i \in DOMAIN UpperCase : UpperCase[i] = c]
    ELSE c
lower(t) == [i \in DOMAIN t |-> LowerChar(t[i])]

\* str.upper() of one character
UpperChar(c) ==
    IF \E i \in DOMAIN LowerCase : LowerCase[i] = c
    THEN UpperCase[CHOOSE i \in DOMAIN LowerCase : LowerCase[i] = c]
    ELSE c

\* t[i:] with a 0-based i
From(t, i) == SubSeq(t, i + 1, Len(t))

\* str.lstrip(chars) and str.strip()
RECURSIVE lstrip(_, _)
lstrip(t, chars) ==
    IF t # <<>> /\ t[1] \in chars THEN lstrip(Tail(t), chars) ELSE t

RECURSIVE rstrip(_, _)
rstrip(t, chars) ==
    IF t # <<>> /\ t[Len(t)] \in chars THEN rstrip(SubSeq(t, 1, Len(t) - 1), chars)
    ELSE t

strip(t) == rstrip(lstrip(t, WhiteSpace), WhiteSpace)

startswith(t, c) == t # <<>> /\ t[1] = c
endswith(t, c) == t # <<>> /\ t[Len(t)] = c
Contains(t, c) == \E i \in DOMAIN t : t[i] = c

\* The pieces of t between separators, empty pieces left out: str.split('+') and
\* re.split(r'[,\s]+', ...) as their callers use them, which skip empty pieces.
RECURSIVE Pieces(_, _, _)
Pieces(t, seps, cur) ==
    IF t = <<>> THEN (IF cur = <<>> THEN <<>> ELSE <<cur>>)
    ELSE IF t[1] \in seps
    THEN (IF cur = <<>> THEN <<>> ELSE <<cur>>) \o Pieces(Tail(t), seps, <<>>)
    ELSE Pieces(Tail(t), seps, Append(cur, t[1]))

\* str.rsplit(':', 1) of a string that holds a ':': <<before, after>> the last one
LastColon(t) == CHOOSE i \in DOMAIN t : t[i] = ":" /\ \A j \in (i + 1)..Len(t) : t[j] # ":"
rsplit(t) == <<SubSeq(t, 1, LastColon(t) - 1), SubSeq(t, LastColon(t) + 1, Len(t))>>

\* ------------------------------------------------------------------ pitch resolver
NOTE_NAMES_SHARP ==
    << <<"C">>, <<"C", "#">>, <<"D">>, <<"D", "#">>, <<"E">>, <<"F">>, <<"F", "#">>,
       <<"G">>, <<"G", "#">>, <<"A">>, <<"A", "#">>, <<"B">> >>

\* str(n) of an integer
RECURSIVE NatStr(_)
NatStr(n) == IF n < 10 THEN <<Digits[n + 1]>> ELSE Append(NatStr(n \div 10), Digits[(n % 10) + 1])
IntStr(n) == IF n < 0 THEN <<"-">> \o NatStr(-n) ELSE NatStr(n)

\* A naming that numbers the octaves from 0 at pitch 0.
midi_to_note_name_from_zero(midi_note) ==
    NOTE_NAMES_SHARP[(midi_note % 12) + 1] \o IntStr(midi_note \div 12)

\* midi_to_note_name (piano.py:206-209); // is floor division
midi_to_note_name(midi_note) ==
    LET pc == midi_note % 12
        octave == (midi_note \div 12) - 1
    IN  NOTE_NAMES_SHARP[pc + 1] \o IntStr(octave)

\* The keys of REST_MAP (piano.py:282-288)
REST_KEYS == {<<"R">>, <<"r">>, <<"r", "r">>, <<"r", "r", "r">>, <<"r", "r", "r", "r">>}

\* The table pcs of note_name_to_midi (piano.py:304-307)
pcs ==
    [k \in {<<"C">>, <<"C", "#">>, <<"D", "b">>, <<"D">>, <<"D", "#">>, <<"E", "b">>,
            <<"E">>, <<"F">>, <<"F", "#">>, <<"G", "b">>, <<"G">>, <<"G", "#">>,
            <<"A", "b">>, <<"A">>, <<"A", "#">>, <<"B", "b">>, <<"B">>} |->
        CASE k = <<"C">> -> 0 [] k \in {<<"C", "#">>, <<"D", "b">>} -> 1
          [] k = <<"D">> -> 2 [] k \in {<<"D", "#">>, <<"E", "b">>} -> 3
          [] k = <<"E">> -> 4 [] k = <<"F">> -> 5
          [] k \in {<<"F", "#">>, <<"G", "b">>} -> 6
          [] k = <<"G">> -> 7 [] k \in {<<"G", "#">>, <<"A", "b">>} -> 8
          [] k = <<"A">> -> 9 [] k \in {<<"A", "#">>, <<"B", "b">>} -> 10
          [] k = <<"B">> -> 11]

\* Results of the resolvers: a value, or the ValueError they raise.
Raised == [ok |-> FALSE, rest |-> FALSE, val |-> 0]
RestMark == [ok |-> TRUE, rest |-> TRUE, val |-> 0]
Pitch(v) == [ok |-> TRUE, rest |-> FALSE, val |-> v]

\* int(octv) of a string that is digits after any number of '-': more than one '-'
\* raises ValueError.
SignedInt(t) ==
    IF isdigit(t) THEN [ok |-> TRUE, val |-> NatOf(t)]
    ELSE IF startswith(t, "-") /\ isdigit(Tail(t)) THEN [ok |-> TRUE, val |-> -NatOf(Tail(t))]
    ELSE [ok |-> FALSE, val |-> 0]

\* A range check that clamps into 0..127 where the resolver raises "out of range".
Clamp(v) == IF v < 0 THEN 0 ELSE IF v > 127 THEN 127 ELSE v
InRangeClamped(v) == Pitch(Clamp(v))

\* "if not (0 <= val <= 127): raise ValueError" (piano.py:300-302 and 319-322)
InRange(v) == IF 0 <= v /\ v <= 127 THEN Pitch(v) ELSE Raised

\* midi = (octave + 1) * 12 + base, after int(octv) (piano.py:315-322)
LetterPitch(base, octave) ==
    IF ~octave.ok THEN Raised ELSE InRange((octave.val + 1) * 12 + base)

\* The letter notation (piano.py:304-322): pitch class pc and octave string octv
LetterNote(pc, octv) ==
    IF pc \notin DOMAIN pcs \/ ~isdigit(lstrip(octv, {"-"})) THEN Raised
    ELSE LetterPitch(pcs[pc], SignedInt(octv))

\* note_name_to_midi on the stripped token t (piano.py:292-322)
ResolveNote(t) ==
    IF lower(t) \in {<<"r">>, <<"r", "e", "s", "t">>} THEN RestMark
    ELSE IF t \in REST_KEYS THEN RestMark
    ELSE IF isdigit(t) \/ (startswith(t, "-") /\ isdigit(Tail(t)))
    THEN InRange(SignedInt(t).val)
    ELSE IF Len(t) < 2 THEN Raised
    ELSE IF Len(t) >= 3 /\ t[2] \in {"#", "b"}
    THEN LetterNote(SubSeq(t, 1, 2), From(t, 2))
    ELSE LetterNote(SubSeq(t, 1, 1), From(t, 1))

\* note_name_to_midi (piano.py:290-322)
note_name_to_midi(token) == ResolveNote(strip(token))

\* ------------------------------------------------------------------ duration resolver
\* DURATION_MAP (piano.py:274-280)
DurW == <<4, 1>>
DurH == <<2, 1>>
DURATION_KEYS == {<<"w">>, <<"h">>, <<"q">>, <<"e">>, <<"s">>}
DURATION_MAP ==
    [k \in DURATION_KEYS |->
        CASE k = <<"w">> -> DurW [] k = <<"h">> -> DurH [] k = <<"q">> -> DurQ
          [] k = <<"e">> -> DurE [] k = <<"s">> -> DurS]

RECURSIVE Pow10(_)
Pow10(k) == IF k = 0 THEN 1 ELSE 10 * Pow10(k - 1)

\* float(t) for the decimal literals [+-]digits[.digits] and [+-].digits; every other
\* string over digits, sign, point and the letters of the notation raises ValueError
\* (exponents, "inf" and "nan" are not among the inputs explored).
NotAFloat == [ok |-> FALSE, val |-> RZero]

\* The value of the digits ds with the last `places` of them after the point.
DecimalValue(neg, ds, places) ==
    IF ds = <<>> \/ \E i \in DOMAIN ds : ~IsDigitChar(ds[i]) THEN NotAFloat
    ELSE [ok |-> TRUE,
          val |-> RNorm(<<(IF neg THEN -NatOf(ds) ELSE NatOf(ds)), Pow10(places)>>)]

\* An unsigned literal with the points at the positions dots.
DecimalAt(neg, body, dots) ==
    IF dots = {} THEN DecimalValue(neg, body, 0)
    ELSE IF Cardinality(dots) > 1 THEN NotAFloat
    ELSE \* the digits around the single point
         DecimalValue(neg, [i \in 1..(Len(body) - 1) |->
                               IF i \in dots \/ \E k \in dots : k < i
                               THEN body[i + 1] ELSE body[i]],
                      Len(body) - (CHOOSE k \in dots : TRUE))

Decimal(neg, body) == DecimalAt(neg, body, {i \in DOMAIN body : body[i] = "."})

FloatOf(t) ==
    IF t # <<>> /\ t[1] \in {"+", "-"} THEN Decimal(t[1] = "-", Tail(t))
    ELSE Decimal(FALSE, t)

\* parse_duration on the stripped, lower-cased token t (piano.py:326-331)
DurationOf(t) ==
    IF t \in DOMAIN DURATION_MAP THEN [ok |-> TRUE, val |-> DURATION_MAP[t]]
    ELSE FloatOf(t)

\* parse_duration (piano.py:324-331)
parse_duration(token) == DurationOf(lower(strip(token)))

\* ------------------------------------------------------------------ event parser
\* sorted(set(notes))
RECURSIVE SortedSeq(_)
SortedSeq(S) ==
    IF S = {} THEN <<>>
    ELSE LET m == CHOOSE x \in S : \A y \in S : x <= y
         IN  <<m>> \o SortedSeq(S \ {m})

\* A parsed group, or the ValueError raised: kind is "rest", "notes" or "pairs".
GroupRaised == [ok |-> FALSE, kind |-> "rest", pitches |-> <<>>, durs |-> <<>>]
GroupRest == [ok |-> TRUE, kind |-> "rest", pitches |-> <<>>, durs |-> <<>>]

\* The loop over the items of a bracketed chord (piano.py:342-353): a rest entry is
\* dropped before its duration is looked at.
RECURSIVE BracketItems(_, _, _)

\* One item of the loop, resolved to the note n and the duration dur.
BracketItem(n, dur, rest, ps, ds) ==
    IF ~n.ok THEN GroupRaised
    ELSE IF n.rest THEN BracketItems(rest, ps, ds)
    ELSE IF ~dur.ok THEN GroupRaised
    ELSE BracketItems(rest, Append(ps, n.val), Append(ds, dur.val))

BracketItems(items, ps, ds) ==
    IF items = <<>>
    THEN (IF ps = <<>> THEN GroupRest
          ELSE [ok |-> TRUE, kind |-> "pairs", pitches |-> ps, durs |-> ds])
    ELSE IF ~Contains(Head(items), ":") THEN GroupRaised
    ELSE BracketItem(note_name_to_midi(rsplit(Head(items))[1]),
                     parse_duration(rsplit(Head(items))[2]), Tail(items), ps, ds)

\* The loop over the items of a plus-separated chord (piano.py:360-369)
RECURSIVE PlusItems(_, _)

\* One item of the loop, resolved to the note n.
PlusItem(n, rest, notes) ==
    IF ~n.ok THEN GroupRaised
    ELSE IF n.rest THEN PlusItems(rest, notes)
    ELSE PlusItems(rest, notes \cup {n.val})

PlusItems(items, notes) ==
    IF items = <<>>
    THEN (IF notes = {} THEN GroupRest
          ELSE [ok |-> TRUE, kind |-> "notes", pitches |-> SortedSeq(notes),
                durs |-> <<>>])
    ELSE PlusItem(note_name_to_midi(Head(items)), Tail(items), notes)

\* parse_note_group on the stripped token t (piano.py:336-372)
NoteGroup(t) ==
    IF startswith(t, "[") /\ endswith(t, "]")
    THEN BracketItems(Pieces(strip(SubSeq(t, 2, Len(t) - 1)), WhiteSpace \cup {","},
                             <<>>),
                      <<>>, <<>>)
    ELSE PlusItems(Pieces(t, {"+"}, <<>>), {})

\* parse_note_group (piano.py:333-372)
parse_note_group(note_tok) == NoteGroup(strip(note_tok))

\* The splitting loop of parse_sequence_line (piano.py:378-399): the parts of the
\* line, a bracketed span kept whole.
Separators == {",", ";", "|", " ", "\t"}

PartsWith(parts, current) ==
    IF strip(current) # <<>> THEN Append(parts, strip(current)) ELSE parts

\* One iteration of the loop (piano.py:382-397) on the character char, from the loop
\* state s = [parts, current, in_bracket].
SplitStep(s, char) ==
    IF char = "["
    THEN [parts |-> PartsWith(s.parts, s.current),
          current |-> (IF strip(s.current) # <<>> THEN <<>> ELSE s.current) \o <<char>>,
          in_bracket |-> TRUE]
    ELSE IF char = "]"
    THEN [parts |-> PartsWith(s.parts, Append(s.current, char)),
          current |-> (IF strip(Append(s.current, char)) # <<>> THEN <<>>
                       ELSE Append(s.current, char)),
          in_bracket |-> FALSE]
    ELSE IF char \in Separators /\ ~s.in_bracket
    THEN [parts |-> PartsWith(s.parts, s.current), current |-> <<>>,
          in_bracket |-> s.in_bracket]
    ELSE [s EXCEPT !.current = Append(s.current, char)]

\* The iterations of the loop (piano.py:381) over text[a..b], in order: those over the
\* first half of the span, then those over the second half from the state `half` the
\* first half ended in.
RECURSIVE SplitLoop(_, _, _, _)
SplitLoop(s, text, a, b) ==
    IF a > b THEN s
    ELSE IF a = b THEN SplitStep(s, text[a])
    ELSE CHOOSE end \in {SplitLoop(half, text, (a + b) \div 2 + 1, b) :
                            half \in {SplitLoop(s, text, a, (a + b) \div 2)}} : TRUE

\* The parts after the loop and the final flush (piano.py:378-399)
SplitEnd(s) == PartsWith(s.parts, s.current)

SplitLine(text) ==
    SplitEnd(SplitLoop([parts |-> <<>>, current |-> <<>>, in_bracket |-> FALSE],
                       text, 1, Len(text)))

\* re.match(r'^\s*triole\s*:\s*([whqes])\s*$', part, IGNORECASE) on a part without
\* white space
TriolePrefix == <<"t", "r", "i", "o", "l", "e", ":">>
IsTrioleToken(part) ==
    /\ Len(part) = Len(TriolePrefix) + 1
    /\ SubSeq(lower(part), 1, Len(TriolePrefix)) = TriolePrefix
    /\ <<lower(part)[Len(part)]>> \in DURATION_KEYS

\* REST_MAP (piano.py:282-288)
REST_MAP ==
    [k \in REST_KEYS |->
        CASE k = <<"R">> -> DurW [] k = <<"r">> -> DurH [] k = <<"r", "r">> -> DurQ
          [] k = <<"r", "r", "r">> -> DurE [] k = <<"r", "r", "r", "r">> -> DurS]

\* The event of one part (piano.py:402-437), or the ValueError raised.
EventRaised == [ok |-> FALSE, ev |-> RestEv(RZero)]
Event(e) == [ok |-> TRUE, ev |-> e]

\* A bracketed part (piano.py:413-421): a chord with a duration per note.
BracketEvent(chord_data) ==
    IF ~chord_data.ok THEN EventRaised
    ELSE IF chord_data.kind = "rest" THEN Event(RestEv(DurE))
    ELSE Event(VarChordEv(chord_data.pitches, chord_data.durs))

\* A part note:duration (piano.py:423-437)
TimedEvent(note, beats) ==
    IF ~note.ok THEN EventRaised
    ELSE IF ~beats.ok THEN EventRaised
    ELSE IF note.kind = "rest" THEN Event(RestEv(beats.val))
    ELSE IF Len(note.pitches) = 1 THEN Event(NoteEv(note.pitches[1], beats.val))
    ELSE Event(ChordEv(note.pitches, beats.val))

ParsePart(part) ==
    IF IsTrioleToken(part)
    THEN Event(TrioleEv(DURATION_MAP[<<lower(part)[Len(part)]>>]))
    ELSE IF part \in REST_KEYS THEN Event(RestEv(REST_MAP[part]))
    ELSE IF startswith(part, "[") /\ endswith(part, "]")
    THEN BracketEvent(parse_note_group(part))
    ELSE IF ~Contains(part, ":") THEN EventRaised
    ELSE TimedEvent(parse_note_group(rsplit(part)[1]), parse_duration(rsplit(part)[2]))

\* A parsed line or file, or the ValueError raised.
RECURSIVE ParseParts(_, _)

\* The loop over the parts after one part gave e.
AfterPart(e, rest, seq) ==
    IF ~e.ok THEN [ok |-> FALSE, seq |-> <<>>]
    ELSE ParseParts(rest, Append(seq, e.ev))

ParseParts(parts, seq) ==
    IF parts = <<>> THEN [ok |-> TRUE, seq |-> seq]
    ELSE AfterPart(ParsePart(Head(parts)), Tail(parts), seq)

\* parse_sequence_line (piano.py:374-438)
parse_sequence_line(text) ==
    IF strip(text) = <<>> THEN [ok |-> TRUE, seq |-> <<>>]
    ELSE ParseParts(SplitLine(text), <<>>)

\* ------------------------------------------------------------------ track compiler
\* A file text is the sequence of its lines (text.splitlines()).
NoLines == [k \in {} |-> <<>>]       \* tracks = {}

\* tracks[label] = seq
Assigned(tracks, label, seq) ==
    [k \in DOMAIN tracks \cup {label} |-> IF k = label THEN seq ELSE tracks[k]]

\* tracks.setdefault('_', []); tracks['_'].extend(seq)
Extended(tracks, seq) ==
    [k \in DOMAIN tracks \cup {"_"} |->
        IF k # "_" THEN tracks[k]
        ELSE IF "_" \in DOMAIN tracks THEN tracks["_"] \o seq ELSE seq]

\* The loop over the lines of parse_sequence_file_text (piano.py:447-460)
RECURSIVE CompileLines(_, _, _)

CompileFailed == [ok |-> FALSE, tracks |-> NoLines, any_labeled |-> FALSE]

\* A line "L: ..." or "R: ..." whose text parsed to body (piano.py:452-457)
LabeledLine(label, body, rest, tracks) ==
    IF ~body.ok THEN CompileFailed
    ELSE CompileLines(rest, Assigned(tracks, label, body.seq), TRUE)

\* A line without a label, parsed to plain (piano.py:458-460)
PlainLine(plain, rest, tracks, any_labeled) ==
    IF ~plain.ok THEN CompileFailed
    ELSE CompileLines(rest, Extended(tracks, plain.seq), any_labeled)

\* One stripped line of the loop (piano.py:448-460)
CompileLine(line, rest, tracks, any_labeled) ==
    IF line = <<>> \/ startswith(line, "#")
    THEN CompileLines(rest, tracks, any_labeled)
    ELSE IF Len(line) >= 2 /\ line[1] \in {"L", "R", "l", "r"} /\ line[2] = ":"
    THEN LabeledLine(UpperChar(line[1]),
                     parse_sequence_line(lstrip(From(line, 2), WhiteSpace)), rest, tracks)
    ELSE PlainLine(parse_sequence_line(line), rest, tracks, any_labeled)

CompileLines(lines, tracks, any_labeled) ==
    IF lines = <<>> THEN [ok |-> TRUE, tracks |-> tracks, any_labeled |-> any_labeled]
    ELSE CompileLine(strip(Head(lines)), Tail(lines), tracks, any_labeled)

\* A Score with both labels whatever the file holds.
ScoreOfTwoKeys(c) ==
    IF ~c.ok THEN [ok |-> FALSE, score |-> NoLines]
    ELSE [ok |-> TRUE,
          score |-> [l \in Labels |->
                        IF c.any_labeled
                        THEN (IF l \in DOMAIN c.tracks THEN c.tracks[l] ELSE <<>>)
                        ELSE IF l = "R" /\ "_" \in DOMAIN c.tracks THEN c.tracks["_"]
                        ELSE <<>>]]

parse_sequence_file_text_two_keys(text) == ScoreOfTwoKeys(CompileLines(text, NoLines, FALSE))

\* The result of parse_sequence_file_text from the tracks collected (piano.py:462-469)
ScoreOf(c) ==
    IF ~c.ok THEN [ok |-> FALSE, score |-> NoLines]
    ELSE IF c.any_labeled
    THEN [ok |-> TRUE,
          score |-> [l \in Labels |-> IF l \in DOMAIN c.tracks THEN c.tracks[l] ELSE <<>>]]
    ELSE [ok |-> TRUE,
          score |-> [l \in {"R"} |->
                        IF "_" \in DOMAIN c.tracks THEN c.tracks["_"] ELSE <<>>]]

\* parse_sequence_file_text (piano.py:440-469): the Score, or the ValueError raised
parse_sequence_file_text(text) == ScoreOf(CompileLines(text, NoLines, FALSE))

\* The except branch of load_sequence_from_file (piano.py:545-550)
ScoreOrEmpty(seq) == IF seq.ok THEN seq.score ELSE EmptyScore

\* load_sequence_from_file (piano.py:513-550) on a file that exists, given its text
load_sequence_from_file(text) == ScoreOrEmpty(parse_sequence_file_text(text))

\* ------------------------------------------------------------------ sequence files
RECURSIVE Join(_)
Join(words) ==
    IF words = <<>> THEN <<>>
    ELSE IF Len(words) = 1 THEN words[1]
    ELSE words[1] \o <<" ">> \o Join(Tail(words))

\* The line "<label>: <words>"
Labeled(label, words) == <<label, ":", " ">> \o Join(words)

C4e == <<"C", "4", ":", "e">>
C4s == <<"C", "4", ":", "s">>
C4q == <<"C", "4", ":", "q">>
E4e == <<"E", "4", ":", "e">>
E4s == <<"E", "4", ":", "s">>
C4tiny == <<"C", "4", ":", "0", ".", "0", "0", "1">>
CE4s == <<"C", "4", "+", "E", "4", ":", "s">>
BracketCE == <<"[", "C", "4", ":", "e", " ", "E", "4", ":", "s", "]">>
rrrr == <<"r", "r", "r", "r">>
TrioleQ == <<"T", "r", "i", "o", "l", "e", ":", "q">>
TrioleE == <<"T", "r", "i", "o", "l", "e", ":", "e">>
TrioleS == <<"T", "r", "i", "o", "l", "e", ":", "s">>

\* The files that compile to the Scores above.
TextEmpty == << <<"#", " ", "e", "m", "p", "t", "y">>, <<"L", ":">> >>
TextOverlap == <<Labeled("L", <<C4e, E4e>>), Labeled("R", <<C4s, E4s, C4s, E4s>>)>>
TextRest == <<Join(<<rrrr, C4s>>)>>
TextTriole == <<Labeled("R", <<TrioleQ, C4e, E4e, C4e, E4s>>)>>
TextNested ==
    <<Labeled("L", <<TrioleE, C4s, TrioleS, E4s, C4s>>),
      Labeled("R", <<TrioleE, TrioleQ, BracketCE, CE4s, TrioleQ>>)>>
TextTiny == <<Labeled("R", <<C4tiny, E4s>>)>>
TextLong == <<Labeled("L", <<C4q>>), Labeled("R", <<E4s>>)>>

\* A file with a token that has no duration: the load fails.
TextBroken == <<Labeled("R", <<C4s, <<"C", "4">>>>)>>

StartTexts == {TextEmpty, TextOverlap, TextRest, TextTriole, TextNested, TextTiny,
               TextLong}

\* The files a reload is explored with: a file that fails to parse and a
\* right-hand-only file.
ReloadTexts == {TextBroken, TextRest}

\* The lines the compiler is explored with.
LoadLines ==
    {Labeled("L", <<C4q>>), Labeled("L", <<E4s>>), Labeled("R", <<E4e>>),
     Labeled("r", <<rrrr, CE4s>>),
     C4s, rrrr, <<"#", " ", "c">>,
     Labeled("R", <<<<"C", "4">>>>),
     Labeled("R", <<<<"1", "2", "8", ":", "q">>>>),
     Labeled("R", <<<<"C", "1", "0", ":", "q">>>>),
     Labeled("R", <<<<"-", "1", ":", "q">>>>),
     Labeled("R", <<<<"0", ":", "q">>, <<"1", "2", "7", ":", "q">>>>),
     Labeled("R", <<<<"C", "4", ":", "0">>>>),
     Labeled("L", <<<<"C", "4", ":", "-", "1">>, E4s>>)}

\* The file "<name of p>:q" for every pitch p
NameText(p) == <<midi_to_note_name(p) \o <<":", "q">>>>

\* The files the compiler is explored with: every file of at most two of the lines,
\* the files of the Scores above, and one file per pitch name.
LoadTexts ==
    {<<>>} \cup {<<a>> : a \in LoadLines} \cup {<<a, b>> : a \in LoadLines, b \in LoadLines}
    \cup StartTexts \cup {TextBroken} \cup {NameText(p) : p \in 0..127}

\* Every file of the runs, and load_sequence_from_file of each, compiled once.
Files == LoadTexts \cup ReloadTexts
ScoreOfFile == [text \in Files |-> load_sequence_from_file(text)]

\* ------------------------------------------------------------------ state values
NoneCur == [kind |-> "none", pitches |-> <<>>]       \* st['current'] = None
RestCur == [kind |-> "rest", pitches |-> <<>>]       \* st['current'] = 'rest'
NotesCur(ps) == [kind |-> "notes", pitches |-> ps]   \* an int or a list of ints

NoTracks == [l \in {} |-> 0]                         \* track_state = {}
NoSink == <<>>
ZeroBal == [p \in Pitches |-> 0]

\* any(SEQUENCE.values()): some track holds at least one event
AnyEvents(score) == \E l \in DOMAIN score : Len(score[l]) > 0

Range(s) == {s[i] : i \in DOMAIN s}

\* note-ons minus note-offs in a list of sink calls, per pitch
RECURSIVE CountCalls(_, _, _)
CountCalls(calls, op, p) ==
    IF calls = <<>> THEN 0
    ELSE (IF Head(calls).op = op /\ Head(calls).pitch = p THEN 1 ELSE 0)
         + CountCalls(Tail(calls), op, p)

BalAfter(b, calls) ==
    [p \in Pitches |-> b[p] + CountCalls(calls, "on", p) - CountCalls(calls, "off", p)]

\* ------------------------------------------------------------------ Init
\* The globals after startup with one of the files loaded as sequence.txt and the tempo at
\* one of bpms (BPM = 120 at startup; any other value after presses of Up/Down).
InitWith(texts, bpms) ==
    /\ loaded \in texts
    /\ SEQUENCE = ScoreOfFile[loaded]
    /\ BPM \in bpms
    /\ is_playing = FALSE
    /\ track_state = NoTracks
    /\ PLAYING_SEQ_NOTES = {}
    /\ now = 0
    /\ crashed = FALSE
    /\ lastOp = "init"
    /\ sink = NoSink
    /\ tickInfo = NoTracks
    /\ late = NoTracks
    /\ maxGap = 0
    /\ bal = ZeroBal
    /\ starts = 0
    /\ reloads = 0
    /\ bpmChanges = 0

Init == InitWith(StartTexts, {120})

\* Startup states with the tempo already at an end of its range or in the middle.
TempoStarts == {20, 120, 400}
InitTempo == InitWith({TextOverlap, TextTriole}, TempoStarts)

\* ------------------------------------------------------------------ Start
\* A Start that schedules every track at clock value 0 instead of the value it read.
FreshTrackAtZero(seq, t) ==
    [idx |-> -1, current |-> NoneCur, next_on_ms |-> 0, off_ms |-> 0,
     finished |-> FALSE, len |-> Len(seq), trip_scale |-> ROne, trip_remaining |-> 0]

\* The per-track state sequencer_start builds (piano.py:601-610).
FreshTrack(seq, t) ==
    [idx |-> -1, current |-> NoneCur, next_on_ms |-> t, off_ms |-> 0,
     finished |-> FALSE, len |-> Len(seq), trip_scale |-> ROne, trip_remaining |-> 0]

\* sequencer_start (piano.py:592-612); the clock is read d ms after its last read.
sequencer_start(d) ==
    /\ ~crashed
    /\ lastOp' = "start"
    /\ sink' = NoSink
    /\ tickInfo' = NoTracks
    /\ IF ~AnyEvents(SEQUENCE)
       THEN UNCHANGED <<is_playing, track_state, PLAYING_SEQ_NOTES, now, late, maxGap,
                        starts>>
       ELSE /\ starts < MaxStarts
            /\ now + d <= MaxNow
            /\ now' = now + d
            /\ is_playing' = TRUE
            /\ track_state' = [l \in DOMAIN SEQUENCE |-> FreshTrack(SEQUENCE[l], now + d)]
            /\ PLAYING_SEQ_NOTES' = {}
            /\ late' = [l \in DOMAIN SEQUENCE |-> 0]
            /\ maxGap' = 0
            /\ starts' = starts + 1
    /\ UNCHANGED <<SEQUENCE, BPM, crashed, bal, reloads, bpmChanges, loaded>>

\* ------------------------------------------------------------------ Stop
\* The stop_note calls of sequencer_stop: one per member of the set, in some order.
SetToSeq(S) == CHOOSE s \in [1..Cardinality(S) -> S] : Range(s) = S

\* A Stop that forgets the note-offs.
StopCallsSilent(active) == <<>>

StopCalls(active) ==
    LET ps == SetToSeq(active)
    IN  [i \in DOMAIN ps |-> [op |-> "off", pitch |-> ps[i], src |-> "stop"]]

\* A Stop that leaves the per-track state in place.
sequencer_stop_keeps_tracks ==
    /\ ~crashed
    /\ lastOp' = "stop"
    /\ sink' = StopCalls(PLAYING_SEQ_NOTES)
    /\ PLAYING_SEQ_NOTES' = {}
    /\ is_playing' = FALSE
    /\ tickInfo' = NoTracks
    /\ bal' = BalAfter(bal, StopCalls(PLAYING_SEQ_NOTES))
    /\ UNCHANGED <<SEQUENCE, BPM, now, crashed, maxGap, starts, reloads, bpmChanges,
                   loaded, track_state, late>>

\* sequencer_stop (piano.py:614-622)
sequencer_stop ==
    /\ ~crashed
    /\ lastOp' = "stop"
    /\ sink' = StopCalls(PLAYING_SEQ_NOTES)
    /\ PLAYING_SEQ_NOTES' = {}
    /\ is_playing' = FALSE
    /\ track_state' = NoTracks
    /\ tickInfo' = NoTracks
    /\ late' = NoTracks
    /\ bal' = BalAfter(bal, StopCalls(PLAYING_SEQ_NOTES))
    /\ UNCHANGED <<SEQUENCE, BPM, now, crashed, maxGap, starts, reloads, bpmChanges,
                   loaded>>

\* ------------------------------------------------------------------ timing helpers
\* beats_to_ms (piano.py:552-553): int((60_000.0 / bpm) * beats)
beats_to_ms_rounded(beats, bpm) ==
    TruncDiv(2 * 60000 * beats[1] + bpm * beats[2], 2 * bpm * beats[2])

beats_to_ms(beats, bpm) == TruncDiv(60000 * beats[1], bpm * beats[2])

RECURSIVE MaxDur(_)
MaxDur(ds) == IF Len(ds) = 1 THEN ds[1] ELSE RMax(ds[1], MaxDur(Tail(ds)))

\* _event_nominal_beats (piano.py:556-562)
event_nominal_beats(ev) == IF ev.kind = "vchord" THEN MaxDur(ev.durs) ELSE ev.beats

\* The while loop of _compute_triole_scale (piano.py:569-576); i is a 0-based index.
RECURSIVE TrioleLookAhead(_, _, _, _)
TrioleLookAhead(seq, i, count, total) ==
    IF ~(i < Len(seq) /\ count < 3) THEN <<count, total>>
    ELSE IF IsTriole(seq[i + 1]) THEN TrioleLookAhead(seq, i + 1, count, total)
    ELSE TrioleLookAhead(seq, i + 1, count + 1,
                         RAdd(total, event_nominal_beats(seq[i + 1])))

\* A look-ahead that compresses the group to one base unit instead of two.
compute_triole_scale_one_unit(seq, start_idx, base_unit) ==
    LET la == TrioleLookAhead(seq, start_idx + 1, 0, RZero)
    IN  IF la[1] = 0 \/ RLeq(la[2], RZero) THEN <<ROne, 0>>
        ELSE <<RDiv(base_unit, la[2]), la[1]>>

\* _compute_triole_scale (piano.py:564-582): <<scale, count>>
compute_triole_scale(seq, start_idx, base_unit) ==
    LET la == TrioleLookAhead(seq, start_idx + 1, 0, RZero)
    IN  IF la[1] = 0 \/ RLeq(la[2], RZero) THEN <<ROne, 0>>
        ELSE <<RDiv(RMul(<<2, 1>>, base_unit), la[2]), la[1]>>

\* ------------------------------------------------------------------ Tick
OnCalls(ps, label) == [i \in DOMAIN ps |-> [op |-> "on", pitch |-> ps[i], src |-> label]]
OffCalls(ps, label) == [i \in DOMAIN ps |-> [op |-> "off", pitch |-> ps[i], src |-> label]]

\* Effective beats of a non-control event (piano.py:671-677 and 688-690).
EffBeats(ev, st) ==
    LET nominal == event_nominal_beats(ev)
    IN  IF st.trip_remaining > 0 THEN RMul(nominal, st.trip_scale) ELSE nominal

\* Consume one of the triole slots if active (piano.py:707-710).
ConsumeSlot(st) ==
    IF st.trip_remaining > 0
    THEN [st EXCEPT !.trip_remaining = @ - 1,
                    !.trip_scale = IF st.trip_remaining = 1 THEN ROne ELSE @]
    ELSE st

\* Scheduling of a non-control event (piano.py:668-711); st.idx is the event's index.
\* Returns the track state and the play_note calls.
Dispatch(st, ev, label, t, bpm) ==
    LET dur_ms == beats_to_ms(EffBeats(ev, st), bpm)
        cur == IF ev.kind = "rest" THEN RestCur ELSE NotesCur(ev.pitches)
        st1 == [st EXCEPT !.current = cur, !.off_ms = t + dur_ms, !.next_on_ms = t + dur_ms]
    IN  [st |-> ConsumeSlot(st1),
         calls |-> IF ev.kind = "rest" THEN <<>> ELSE OnCalls(ev.pitches, label),
         eff |-> EffBeats(ev, st)]

\* The consume loop without its final break: it keeps scheduling events until the
\* track is exhausted.
RECURSIVE ConsumeLoopNoBreak(_, _, _, _, _, _)
ConsumeLoopNoBreak(st, seq, label, t, bpm, ctrl) ==
    LET i == st.idx + 1
        sti == [st EXCEPT !.idx = i]
    IN  IF i >= st.len
        THEN [st |-> [sti EXCEPT !.finished = TRUE], calls |-> <<>>, outcome |-> "finished",
              ctrl |-> ctrl, disp |-> 0, eff |-> RZero]
        ELSE IF i >= Len(seq)
        THEN [st |-> sti, calls |-> <<>>, outcome |-> "crash", ctrl |-> ctrl, disp |-> 0,
              eff |-> RZero]
        ELSE IF IsTriole(seq[i + 1])
        THEN LET sc == compute_triole_scale(seq, i, seq[i + 1].beats)
             IN  ConsumeLoopNoBreak(
                     [sti EXCEPT !.trip_scale = sc[1], !.trip_remaining = sc[2]],
                     seq, label, t, bpm, ctrl + 1)
        ELSE LET d == Dispatch(sti, seq[i + 1], label, t, bpm)
                 more == ConsumeLoopNoBreak(d.st, seq, label, t, bpm, ctrl)
             IN  [st |-> more.st, calls |-> d.calls \o more.calls,
                  outcome |-> more.outcome, ctrl |-> more.ctrl, disp |-> more.disp + 1,
                  eff |-> d.eff]

\* The while True loop of sequencer_update (piano.py:654-711).
\* outcome: "finished" | "event" | "crash" (seq[st['idx']] raised IndexError);
\* ctrl and disp count the control tokens consumed and the events scheduled.
RECURSIVE ConsumeLoop(_, _, _, _, _, _)
ConsumeLoop(st, seq, label, t, bpm, ctrl) ==
    LET i == st.idx + 1
        sti == [st EXCEPT !.idx = i]
    IN  IF i >= st.len
        THEN [st |-> [sti EXCEPT !.finished = TRUE], calls |-> <<>>, outcome |-> "finished",
              ctrl |-> ctrl, disp |-> 0, eff |-> RZero]
        ELSE IF i >= Len(seq)
        THEN [st |-> sti, calls |-> <<>>, outcome |-> "crash", ctrl |-> ctrl, disp |-> 0,
              eff |-> RZero]
        ELSE IF IsTriole(seq[i + 1])
        THEN LET sc == compute_triole_scale(seq, i, seq[i + 1].beats)
             IN  ConsumeLoop([sti EXCEPT !.trip_scale = sc[1], !.trip_remaining = sc[2]],
                             seq, label, t, bpm, ctrl + 1)
        ELSE LET d == Dispatch(sti, seq[i + 1], label, t, bpm)
             IN  [st |-> d.st, calls |-> d.calls, outcome |-> "event", ctrl |-> ctrl,
                  disp |-> 1, eff |-> d.eff]

\* A turn-off that releases only the first pitch of a list.
stop_current_first_only(st, active, label) ==
    [st |-> [st EXCEPT !.current = NoneCur],
     active |-> IF st.current.kind = "notes" THEN active \ {st.current.pitches[1]}
                ELSE active,
     calls |-> IF st.current.kind = "notes"
               THEN OffCalls(SubSeq(st.current.pitches, 1, 1), label)
               ELSE <<>>]

\* _stop_current_for_track (piano.py:624-634): the state, the set and the stop_note calls
stop_current_for_track(st, active, label) ==
    [st |-> [st EXCEPT !.current = NoneCur],
     active |-> IF st.current.kind = "notes" THEN active \ Range(st.current.pitches)
                ELSE active,
     calls |-> IF st.current.kind = "notes" THEN OffCalls(st.current.pitches, label)
               ELSE <<>>]

\* A turn-off test that ignores the clock.
DueOffAnyTime(st, t) == st.current.kind = "notes"

\* "Turn off if time passed" (piano.py:648) and "Start next if ready" (piano.py:652)
DueOff(st, t) == st.current.kind = "notes" /\ t >= st.off_ms
DueOn(st, t) == st.current.kind = "none" /\ t >= st.next_on_ms

\* What the last update did on a track it did not touch.
IdleInfo(st) == [disp |-> 0, ctrl |-> 0, eff |-> RZero, fin |-> st.finished, due |-> 0]

\* One iteration of the for loop of sequencer_update (piano.py:642-714) on the world
\* w = [ts, active, sink, info, late, crashed].
TrackUpdate(w, label, seq, t, bpm) ==
    IF w.crashed \/ label \notin DOMAIN w.ts \/ w.ts[label].finished THEN w
    ELSE
    LET st0 == w.ts[label]
        off == IF DueOff(st0, t)
               THEN stop_current_for_track(st0, w.active, label)
               ELSE [st |-> st0, active |-> w.active, calls |-> <<>>]
        st1 == off.st
        ready == DueOn(st1, t)
        run == ConsumeLoop(st1, seq, label, t, bpm, 0)
    IN  IF ~ready
        THEN [w EXCEPT !.ts[label] = st1, !.active = off.active,
                       !.sink = w.sink \o off.calls]
        ELSE [w EXCEPT !.ts[label] = run.st,
                       !.active = off.active \cup {c.pitch : c \in Range(run.calls)},
                       !.sink = w.sink \o off.calls \o run.calls,
                       !.info[label] = [disp |-> run.disp,
                                        ctrl |-> run.ctrl, eff |-> run.eff,
                                        fin |-> run.st.finished, due |-> st1.next_on_ms],
                       !.late[label] = IF run.outcome = "event"
                                       THEN @ + (t - st1.next_on_ms) ELSE @,
                       !.crashed = (run.outcome = "crash")]

\* The for loop over SEQUENCE.items() (piano.py:642-714).
RECURSIVE UpdateTracks(_, _, _, _, _)
UpdateTracks(w, order, score, t, bpm) ==
    IF order = <<>> THEN w
    ELSE UpdateTracks(IF Head(order) \in DOMAIN score
                      THEN TrackUpdate(w, Head(order), score[Head(order)], t, bpm)
                      ELSE w,
                      Tail(order), score, t, bpm)

\* all_finished after the loop (piano.py:640, 644-645, 713-714)
AllFinished(ts, score) ==
    \A l \in DOMAIN score : l \notin DOMAIN ts \/ ts[l].finished

\* lastOp after an update that left playback running: "retick" when it read the same
\* clock value as the update right before it, "tick" otherwise.
TickOps == {"tick", "retick"}

\* sequencer_update (piano.py:636-717). While playing, the clock is read d ms after
\* its last read; while idle the update returns before reading it.
sequencer_update(d) ==
    /\ ~crashed
    /\ IF ~is_playing
       THEN /\ lastOp' = "tick"
            /\ sink' = NoSink
            /\ tickInfo' = NoTracks
            /\ UNCHANGED <<is_playing, track_state, PLAYING_SEQ_NOTES, now, crashed, late,
                           maxGap, bal>>
       ELSE /\ now + d <= MaxNow
            /\ now' = now + d
            /\ \E w \in {UpdateTracks(
                            [ts |-> track_state, active |-> PLAYING_SEQ_NOTES,
                             sink |-> <<>>,
                             info |-> [l \in DOMAIN track_state |->
                                          IdleInfo(track_state[l])],
                             late |-> late, crashed |-> FALSE],
                            LabelOrder, SEQUENCE, now + d, BPM)} :
                 \E stop \in {~w.crashed /\ AllFinished(w.ts, SEQUENCE)} :
                 \E calls \in {IF stop THEN w.sink \o StopCalls(w.active) ELSE w.sink} :
                    /\ crashed' = w.crashed
                    /\ lastOp' = IF w.crashed THEN "crash" ELSE IF stop THEN "autostop"
                                 ELSE IF d = 0 /\ lastOp \in TickOps THEN "retick"
                                 ELSE "tick"
                    /\ sink' = calls
                    /\ tickInfo' = [l \in DOMAIN w.info |->
                                       [w.info[l] EXCEPT !.fin = w.ts[l].finished]]
                    /\ is_playing' = ~stop
                    /\ track_state' = IF stop THEN NoTracks ELSE w.ts
                    /\ PLAYING_SEQ_NOTES' = IF stop THEN {} ELSE w.active
                    /\ late' = IF stop THEN NoTracks ELSE w.late
                    /\ maxGap' = IF d > maxGap THEN d ELSE maxGap
                    /\ bal' = BalAfter(bal, calls)
    /\ UNCHANGED <<SEQUENCE, BPM, starts, reloads, bpmChanges, loaded>>

\* ------------------------------------------------------------------ host operations
\* K_UP / K_DOWN (piano.py:766-769)
\* A clamp that lets its second argument through.
Unclamped(a, b) == b

Min(a, b) == IF a < b THEN a ELSE b
Max(a, b) == IF a > b THEN a ELSE b

HostOp(op) ==
    /\ lastOp' = op
    /\ sink' = NoSink
    /\ tickInfo' = NoTracks

bpm_up ==
    /\ ~crashed
    /\ bpmChanges < MaxBpmChanges
    /\ bpmChanges' = bpmChanges + 1
    /\ BPM' = Min(400, BPM + 1)
    /\ HostOp("bpm")
    /\ UNCHANGED <<SEQUENCE, is_playing, track_state, PLAYING_SEQ_NOTES, now, crashed,
                   late, maxGap, bal, starts, reloads, loaded>>

bpm_down ==
    /\ ~crashed
    /\ bpmChanges < MaxBpmChanges
    /\ bpmChanges' = bpmChanges + 1
    /\ BPM' = Max(20, BPM - 1)
    /\ HostOp("bpm")
    /\ UNCHANGED <<SEQUENCE, is_playing, track_state, PLAYING_SEQ_NOTES, now, crashed,
                   late, maxGap, bal, starts, reloads, loaded>>

\* K_r (piano.py:763-765): SEQUENCE = load_sequence_from_file(), the file picked
\* holding text
reload(text) ==
    /\ ~crashed
    /\ reloads < MaxReloads
    /\ reloads' = reloads + 1
    /\ loaded' = text
    /\ SEQUENCE' = ScoreOfFile[text]
    /\ HostOp("reload")
    /\ UNCHANGED <<BPM, is_playing, track_state, PLAYING_SEQ_NOTES, now, crashed,
                   late, maxGap, bal, starts, bpmChanges>>

\* ------------------------------------------------------------------ specifications
Start == \E d \in Gaps : sequencer_start(d)
Tick == \E d \in Gaps : sequencer_update(d)
Reload == \E text \in ReloadTexts : reload(text)

\* Every host operation, reload included.
Next ==
    \/ Start
    \/ sequencer_stop
    \/ Tick
    \/ bpm_up
    \/ bpm_down
    \/ Reload

Spec == Init /\ [][Next]_vars

\* The Score stays the one loaded at startup: Start, Stop, Tick and BPM changes.
NextFixed ==
    \/ Start
    \/ sequencer_stop
    \/ Tick
    \/ bpm_up
    \/ bpm_down

SpecFixed == Init /\ [][NextFixed]_vars

\* The same operations, from the tempos of TempoStarts.
SpecTempo == InitTempo /\ [][NextFixed]_vars

\* A file is loaded at startup, possibly another one is picked, and it is played once.
InitLoad == InitWith(LoadTexts, {120})

LoadAny == \E text \in LoadTexts : reload(text)

NextLoad ==
    \/ (lastOp = "init" /\ LoadAny)
    \/ (lastOp \in {"init", "reload"} /\ Start)
    \/ (lastOp \notin {"init", "reload"} /\ Tick)

SpecLoad == InitLoad /\ [][NextLoad]_vars

\* One playback with reloads in it: Start once, then Tick and K_r in any order, the
\* file picked being any of the startup files or the file that fails to parse.
PickedTexts == StartTexts \cup {TextBroken}

ReloadAny == \E text \in PickedTexts : reload(text)

NextReload ==
    \/ (lastOp = "init" /\ Start)
    \/ (lastOp # "init" /\ Tick)
    \/ (lastOp # "init" /\ ReloadAny)

SpecReload == Init /\ [][NextReload]_vars

\* One playback: Start once, then only Tick.
NextPlay ==
    \/ (lastOp = "init" /\ Start)
    \/ (lastOp # "init" /\ Tick)

SpecPlay == Init /\ [][NextPlay]_vars

\* ------------------------------------------------------------------ claims C1 - C4
LargestGap == CHOOSE g \in Gaps : \A h \in Gaps : h <= g

\* Milliseconds a track takes when every event lasts exactly its dur_ms, walking the
\* track from 0-based index i with the triole counters of st.
RECURSIVE TrackMs(_, _, _, _)
TrackMs(seq, i, st, bpm) ==
    IF i >= Len(seq) THEN 0
    ELSE IF IsTriole(seq[i + 1])
    THEN LET sc == compute_triole_scale(seq, i, seq[i + 1].beats)
         IN  TrackMs(seq, i + 1, [st EXCEPT !.trip_scale = sc[1], !.trip_remaining = sc[2]],
                     bpm)
    ELSE beats_to_ms(EffBeats(seq[i + 1], st), bpm)
         + TrackMs(seq, i + 1, ConsumeSlot(st), bpm)

\* A time by which a playback started at or before LargestGap is over when every call
\* of the scheduler comes at most LargestGap after the previous one: each event may be
\* dispatched up to one gap late, and one more call marks the track finished.
TrackDeadline(seq, bpm) ==
    TrackMs(seq, 0, FreshTrack(seq, 0), bpm) + (Len(seq) + 1) * LargestGap

Deadline(score, bpm) ==
    LargestGap + (CHOOSE m \in {TrackDeadline(score[l], bpm) : l \in DOMAIN score} :
                    \A l \in DOMAIN score : TrackDeadline(score[l], bpm) <= m)

HasRest(score) ==
    \E l \in DOMAIN score : \E i \in DOMAIN score[l] : score[l][i].kind = "rest"

\* C1: after Start on a Score with a non-empty track, Ticks with an increasing clock
\* and no other operation bring every track to finished and the scheduler to
\* auto-stop: once the clock has passed the deadline of the Score, nothing plays.
C1_PlaybackCompletes ==
    (lastOp # "init" /\ AnyEvents(SEQUENCE) /\ now >= Deadline(SEQUENCE, BPM))
        => ~is_playing

\* The same for the Scores without a Rest: these do complete.
C1_RestFreeCompletes ==
    (lastOp # "init" /\ AnyEvents(SEQUENCE) /\ ~HasRest(SEQUENCE)
        /\ now >= Deadline(SEQUENCE, BPM))
        => ~is_playing

\* A track resting on a Rest whose time is over, after an update that read the clock.
C1_RestNeverEnds ==
    \E l \in DOMAIN track_state :
        /\ track_state[l].current = RestCur
        /\ lastOp \in TickOps
        /\ now >= track_state[l].off_ms + LargestGap

\* C2: whenever playback has just ended by Stop or by auto-stop, every pitch has
\* received as many note-offs as note-ons.
C2_OnOffBalance ==
    lastOp \in {"stop", "autostop"} => \A p \in Pitches : bal[p] = 0

\* C3: Stop emits exactly one note-off per pitch of PLAYING_SEQ_NOTES and nothing else,
\* leaves the set empty, is_playing false and track_state empty; a Stop right after a
\* Stop emits nothing and changes no state.
C3_StopStep ==
    lastOp' = "stop" =>
        /\ \A p \in Pitches :
              CountCalls(sink', "off", p) = (IF p \in PLAYING_SEQ_NOTES THEN 1 ELSE 0)
        /\ Len(sink') = Cardinality(PLAYING_SEQ_NOTES)
        /\ PLAYING_SEQ_NOTES' = {}
        /\ is_playing' = FALSE
        /\ track_state' = NoTracks
        /\ lastOp = "stop" =>
              /\ sink' = NoSink
              /\ UNCHANGED <<SEQUENCE, BPM, is_playing, track_state, PLAYING_SEQ_NOTES,
                             now, crashed>>

C3_StopEmitsActiveOnce == [][C3_StopStep]_vars

\* A Stop that silenced two sounding pitches.
C3_Witness == lastOp = "stop" /\ Len(sink) = 2

\* C4: an update auto-stops only when every track holding playback state is finished,
\* and the Stop it implies emits no note-off.
C4_AutoStopOnlyWhenAllFinished ==
    lastOp = "autostop" =>
        /\ \A l \in DOMAIN tickInfo : tickInfo[l].fin
        /\ \A i \in DOMAIN sink : sink[i].src # "stop"

\* An auto-stop that came after one track had finished alone.
C4_Witness ==
    /\ lastOp = "autostop"
    /\ DOMAIN tickInfo = Labels
    /\ \E l \in Labels : tickInfo[l].disp = 0 /\ tickInfo[l].due = 0

\* ------------------------------------------------------------------ claims C5 - C7
\* 0-based indices i of seq with a < i <= b that hold a non-control event
EventsBetween(seq, a, b) ==
    {i \in 0..(Len(seq) - 1) : a < i /\ i <= b /\ ~IsTriole(seq[i + 1])}

OnCallsFrom(calls, label) ==
    Cardinality({i \in DOMAIN calls : calls[i].op = "on" /\ calls[i].src = label})

\* C5: one update schedules at most one non-control event per track; the control
\* tokens it consumes emit nothing and leave off_ms / next_on_ms alone.
C5_TickStep ==
    (is_playing /\ lastOp' \in TickOps \cup {"autostop"}) =>
        /\ \A l \in DOMAIN tickInfo' : tickInfo'[l].disp <= 1
        /\ \A l \in DOMAIN track_state \cap DOMAIN track_state' \cap DOMAIN SEQUENCE :
              LET a == track_state[l].idx
                  b == track_state'[l].idx
                  n == Cardinality(EventsBetween(SEQUENCE[l], a, b))
              IN  /\ n <= 1
                  /\ n = tickInfo'[l].disp
                  /\ OnCallsFrom(sink', l)
                       = (IF n = 1 THEN Len(SEQUENCE[l][b + 1].pitches) ELSE 0)
                  /\ n = 0 => /\ track_state'[l].off_ms = track_state[l].off_ms
                              /\ track_state'[l].next_on_ms = track_state[l].next_on_ms

C5_OneEventPerTick == [][C5_TickStep]_vars

\* An update that consumed two control tokens and then scheduled one event, and one
\* that scheduled a single event although a later event was already overdue.
C5_Witness ==
    /\ lastOp \in TickOps
    /\ \E l \in DOMAIN tickInfo : tickInfo[l].ctrl >= 2 /\ tickInfo[l].disp = 1

C5_WitnessOverdue ==
    /\ lastOp \in TickOps
    /\ \E l \in DOMAIN tickInfo : tickInfo[l].disp = 1 /\ late[l] > LargestGap

\* C6 as stated: an update that reads the same clock value as the update right before
\* it emits nothing and changes nothing.
C6_RetickStep ==
    (is_playing /\ lastOp \in TickOps /\ lastOp' \in {"retick", "autostop", "crash"}
        /\ now' = now)
        => /\ sink' = NoSink
           /\ UNCHANGED <<SEQUENCE, BPM, is_playing, track_state, PLAYING_SEQ_NOTES,
                          crashed>>

C6_TickIdempotent == [][C6_RetickStep]_vars

\* Some track is sounding notes whose off time the clock has already reached.
OverdueNotes ==
    \E l \in DOMAIN track_state \cap DOMAIN SEQUENCE :
        /\ ~track_state[l].finished
        /\ track_state[l].current.kind = "notes"
        /\ track_state[l].off_ms <= now

\* C6 amended: the repeated update is a no-op unless the first one left a track
\* sounding an event whose off_ms is not after the clock value (dur_ms <= 0).
C6_RetickStepAmended == OverdueNotes \/ C6_RetickStep

C6_TickIdempotentUnlessOverdue == [][C6_RetickStepAmended]_vars

\* A repeated update at the same clock value while notes are sounding.
C6_Witness ==
    lastOp = "retick" /\ PLAYING_SEQ_NOTES # {} /\ sink = NoSink /\ ~OverdueNotes

\* C7: the lateness of every dispatch against its ideal time (Start plus the dur_ms of
\* the events before it) is at most the largest gap between two scheduler calls.
C7_NoCumulativeDrift == \A l \in DOMAIN late : late[l] <= maxGap

\* ------------------------------------------------------------------ claims C8 - C10
\* x is the integer part of 60000/bpm * beats
IsTruncMs(x, beats, bpm) ==
    IF beats[1] >= 0
    THEN x * bpm * beats[2] <= 60000 * beats[1] /\ 60000 * beats[1] < (x + 1) * bpm * beats[2]
    ELSE x * bpm * beats[2] >= 60000 * beats[1] /\ 60000 * beats[1] > (x - 1) * bpm * beats[2]

\* x is an integer nearest to 60000/bpm * beats
IsNearestMs(x, beats, bpm) ==
    2 * Abs(x * bpm * beats[2] - 60000 * beats[1]) <= bpm * beats[2]

\* The tracks on which the last update scheduled an event.
Dispatched ==
    IF lastOp \in TickOps
    THEN {l \in DOMAIN tickInfo \cap DOMAIN track_state : tickInfo[l].disp = 1}
    ELSE {}

BeatValues == {DurQ, DurE, DurS, DurTiny, <<2, 3>>, <<1, 3>>}

\* C8 as stated: the scheduled duration is 60000/BPM * b rounded to the nearest ms.
C8_DurationRounded ==
    \A l \in Dispatched :
        /\ track_state[l].off_ms = track_state[l].next_on_ms
        /\ IsNearestMs(track_state[l].off_ms - now, tickInfo[l].eff, BPM)

\* C8 amended: the scheduled duration is 60000/BPM * b truncated to whole ms (for every
\* BPM of [20,400]), and off_ms = next_on_ms = now + dur_ms; in Triole:q followed by
\* three eighths each note has b = 0.5 * 4/3.
C8_DurationTruncated ==
    /\ \A l \in Dispatched :
          /\ track_state[l].off_ms = track_state[l].next_on_ms
          /\ IsTruncMs(track_state[l].off_ms - now, tickInfo[l].eff, BPM)
          /\ (SEQUENCE = ScoreTriole /\ l = "R" /\ track_state[l].idx \in 1..3)
                => tickInfo[l].eff = <<2, 3>>
    /\ lastOp = "init" =>
          \A bpm \in 20..400 : \A b \in BeatValues :
              IsTruncMs(beats_to_ms(b, bpm), b, bpm)

\* An event scheduled with a duration whose exact value has a fraction above one half.
C8_Witness ==
    \E l \in Dispatched :
        /\ IsTruncMs(track_state[l].off_ms - now, tickInfo[l].eff, BPM)
        /\ ~IsNearestMs(track_state[l].off_ms - now, tickInfo[l].eff, BPM)

\* 1-based positions of the non-control events of seq
SoundingAt(seq) == {i \in DOMAIN seq : ~IsTriole(seq[i])}

\* The group of the directive at position j: the next up to 3 non-control events.
GroupOf(seq, j) ==
    {i \in SoundingAt(seq) :
        i > j /\ Cardinality({h \in SoundingAt(seq) : j < h /\ h <= i}) <= 3}

RECURSIVE NominalSum(_, _)
NominalSum(seq, S) ==
    IF S = {} THEN RZero
    ELSE LET i == CHOOSE x \in S : TRUE
         IN  RAdd(event_nominal_beats(seq[i]), NominalSum(seq, S \ {i}))

\* 2 * base / S for the directive at position j (S > 0)
GroupScale(seq, j) ==
    RDiv(RMul(<<2, 1>>, seq[j].beats), NominalSum(seq, GroupOf(seq, j)))

\* The directive at j compresses the event at i.
Compresses(seq, j, i) ==
    /\ IsTriole(seq[j])
    /\ i \in GroupOf(seq, j)
    /\ RLess(RZero, NominalSum(seq, GroupOf(seq, j)))

\* The first non-control event after the group of the directive at j.
FollowsGroup(seq, j, i) ==
    /\ IsTriole(seq[j])
    /\ RLess(RZero, NominalSum(seq, GroupOf(seq, j)))
    /\ i \in SoundingAt(seq) \ GroupOf(seq, j)
    /\ i > j
    /\ \A h \in SoundingAt(seq) : (j < h /\ h < i) => h \in GroupOf(seq, j)

NearestDirective(seq, i) ==
    IF \E j \in 1..(i - 1) : IsTriole(seq[j])
    THEN CHOOSE j \in 1..(i - 1) :
            IsTriole(seq[j]) /\ \A h \in (j + 1)..(i - 1) : ~IsTriole(seq[h])
    ELSE 0

\* No directive lies inside the group of the directive at j.
Unbroken(seq, j) ==
    \A i \in GroupOf(seq, j) : \A h \in (j + 1)..(i - 1) : ~IsTriole(seq[h])

C9_WitnessAfterGroup ==
    \E l \in Dispatched \cap DOMAIN SEQUENCE :
        LET seq == SEQUENCE[l]
            i == track_state[l].idx + 1
            j == NearestDirective(seq, i)
        IN  j > 0 /\ FollowsGroup(seq, j, i)

\* C10: Start on a Score with only empty tracks changes nothing and emits nothing; on
\* any other Score it gives every label of the Score a fresh state scheduled at the
\* clock value it read.
C10_StartStep ==
    lastOp' = "start" =>
        /\ sink' = NoSink
        /\ IF \A l \in DOMAIN SEQUENCE : SEQUENCE[l] = <<>>
           THEN UNCHANGED <<is_playing, track_state, PLAYING_SEQ_NOTES>>
           ELSE /\ is_playing'
                /\ DOMAIN track_state' = DOMAIN SEQUENCE
                /\ \A l \in DOMAIN SEQUENCE :
                      /\ track_state'[l].idx = -1
                      /\ track_state'[l].current = NoneCur
                      /\ track_state'[l].next_on_ms = now'
                      /\ track_state'[l].finished = FALSE
                      /\ track_state'[l].trip_scale = ROne
                      /\ track_state'[l].trip_remaining = 0

C10_StartResets == [][C10_StartStep]_vars

\* A Start on an all-empty Score while playback is running, and a Start that restarted
\* a running playback.
C10_Witness ==
    lastOp = "start" /\ is_playing /\ ~AnyEvents(SEQUENCE) /\ PLAYING_SEQ_NOTES # {}

C10_WitnessRestart ==
    /\ lastOp = "start" /\ starts = 2 /\ AnyEvents(SEQUENCE)
    /\ \A l \in DOMAIN track_state : track_state[l].idx = -1

\* ------------------------------------------------------------------ claims C11 - C14
\* C11: a press of Up or Down changes nothing but BPM, by at most one and never out of
\* [20,400]; every event an update schedules lasts beats_to_ms at the BPM of that
\* update.
C11_BpmStep ==
    /\ lastOp' = "bpm" =>
          /\ UNCHANGED <<SEQUENCE, is_playing, track_state, PLAYING_SEQ_NOTES>>
          /\ sink' = NoSink
          /\ BPM' \in 20..400
          /\ BPM' \in {BPM - 1, BPM, BPM + 1}
    /\ (is_playing /\ lastOp' \in TickOps) =>
          /\ BPM' = BPM
          /\ \A l \in DOMAIN tickInfo' \cap DOMAIN track_state' :
                tickInfo'[l].disp = 1 =>
                    /\ IsTruncMs(track_state'[l].off_ms - now', tickInfo'[l].eff, BPM)
                    /\ track_state'[l].next_on_ms = track_state'[l].off_ms

C11_BpmChangeFrame == [][C11_BpmStep]_vars

\* A press of Up at BPM 400 while notes are sounding: the tempo stays 400.
C11_Witness ==
    /\ lastOp = "bpm" /\ bpmChanges = 1 /\ BPM = 400
    /\ is_playing /\ PLAYING_SEQ_NOTES # {}

\* An event scheduled at a tempo changed during playback.
C11_WitnessLaterTick ==
    /\ lastOp \in TickOps /\ bpmChanges = 1 /\ BPM = 121
    /\ \E l \in DOMAIN tickInfo : tickInfo[l].disp = 1 /\ track_state[l].idx >= 1

\* The label of a line of a file: "L" or "R", "_" for an unlabeled line, "" for a
\* blank line or a comment.
LineLabel(line) ==
    LET t == strip(line)
    IN  IF t = <<>> \/ t[1] = "#" THEN ""
        ELSE IF Len(t) >= 2 /\ t[2] = ":" /\ t[1] \in {"L", "l"} THEN "L"
        ELSE IF Len(t) >= 2 /\ t[2] = ":" /\ t[1] \in {"R", "r"} THEN "R"
        ELSE "_"

\* The events of the body of a line.
LineEvents(line) ==
    IF LineLabel(line) \in Labels THEN parse_sequence_line(From(strip(line), 2)).seq
    ELSE parse_sequence_line(line).seq

\* The events of all lines of text with the given label, in line order.
RECURSIVE Concatenated(_, _)
Concatenated(text, label) ==
    IF text = <<>> THEN <<>>
    ELSE (IF LineLabel(Head(text)) = label THEN LineEvents(Head(text)) ELSE <<>>)
         \o Concatenated(Tail(text), label)

HasLabeledLine(text) == \E i \in DOMAIN text : LineLabel(text[i]) \in Labels

\* C12: the track of a label is the concatenation, in line order, of the events of all
\* lines of the file with that label.
C12_LabelLinesConcatenated ==
    (parse_sequence_file_text(loaded).ok /\ HasLabeledLine(loaded)) =>
        \A l \in Labels : SEQUENCE[l] = Concatenated(loaded, l)

\* C13 as stated: every compiled Score holds both labels L and R.
C13_BothLabelsAlways == DOMAIN SEQUENCE = Labels

\* The file is compiled without error.
Compiles(text) == parse_sequence_file_text(text).ok

\* C13 amended: the Score holds both labels when the file has an L: or R: line or
\* fails to parse, and only R when it has no labeled line (unlabeled lines only,
\* comments only, or no line at all).
C13_BothLabelsWhenLabeledOrFailed ==
    DOMAIN SEQUENCE =
        (IF ~Compiles(loaded) \/ HasLabeledLine(loaded) THEN Labels ELSE {"R"})

\* The empty file, picked and loaded: a Score with the single label R.
C13_Witness == lastOp = "reload" /\ loaded = <<>> /\ DOMAIN SEQUENCE = {"R"}

\* A file that fails to parse, picked and loaded: both labels.
C13_WitnessFailed ==
    lastOp = "reload" /\ ~Compiles(loaded) /\ DOMAIN SEQUENCE = Labels

\* C14: a file that fails to parse gives the Score {L: [], R: []}, and no update after
\* a failed load ends in an error.
C14_FailedLoadIsolated ==
    ~Compiles(loaded) => (SEQUENCE = EmptyScore /\ ~crashed)

\* The first half alone: the Score of a failed load.
C14_FailedLoadEmpty == ~Compiles(loaded) => SEQUENCE = EmptyScore

\* The reload itself touches nothing but the Score.
C14_ReloadStep ==
    lastOp' = "reload" =>
        UNCHANGED <<is_playing, track_state, PLAYING_SEQ_NOTES, BPM, now, crashed>>
C14_ReloadFrame == [][C14_ReloadStep]_vars

\* ------------------------------------------------------------------ claims C15 - C17
\* C15: for every pitch p of 0..127 the Pitch Resolver maps the sharp-spelled name of
\* p back to p, alone and inside a file that holds the name with a duration.
C15_PitchRoundTrip ==
    /\ \A p \in 0..127 :
          loaded = NameText(p) => SEQUENCE = [l \in {"R"} |-> <<NoteEv(p, DurQ)>>]
    /\ lastOp = "reload" =>
          \A p \in 0..127 : note_name_to_midi(midi_to_note_name(p)) = Pitch(p)

\* The file "C-1:q", picked and loaded: the note is pitch 0.
C15_Witness ==
    /\ lastOp = "reload" /\ loaded = <<<<"C", "-", "1", ":", "q">>>>
    /\ SEQUENCE["R"][1].pitches = <<0>>

\* The file "G9:q": pitch 127 is played.
C15_WitnessTop ==
    /\ loaded = <<<<"G", "9", ":", "q">>>> /\ PLAYING_SEQ_NOTES = {127}

\* Lines with a pitch token that resolves outside 0..127: 128, C10 (132) and -1.
OutOfRangeLines ==
    {Labeled("R", <<<<"1", "2", "8", ":", "q">>>>),
     Labeled("R", <<<<"C", "1", "0", ":", "q">>>>),
     Labeled("R", <<<<"-", "1", ":", "q">>>>)}

EventPitches(score) ==
    {score[l][i].pitches[k] :
        <<l, i, k>> \in {x \in (DOMAIN score) \X (1..8) \X (1..4) :
                            /\ x[2] \in DOMAIN score[x[1]]
                            /\ x[3] \in DOMAIN score[x[1]][x[2]].pitches}}

\* C16: every pitch of the Score, of the sounding set and of every call to the sink is
\* in 0..127, and a file with a pitch token outside that range is rejected as a whole.
C16_PitchesInRange ==
    /\ EventPitches(SEQUENCE) \subseteq 0..127
    /\ PLAYING_SEQ_NOTES \subseteq 0..127
    /\ \A i \in DOMAIN sink : sink[i].pitch \in 0..127
    /\ (\E i \in DOMAIN loaded : loaded[i] \in OutOfRangeLines) =>
          (~Compiles(loaded) /\ SEQUENCE = EmptyScore)

\* A file with a good line and the token 128:q, picked and loaded: nothing is kept.
C16_Witness ==
    /\ lastOp = "reload"
    /\ loaded = <<Labeled("L", <<C4q>>), Labeled("R", <<<<"1", "2", "8", ":", "q">>>>)>>
    /\ SEQUENCE = EmptyScore

\* The two ends of the range, played from the file "R: 0:q 127:q".
C16_WitnessEnds ==
    /\ EventPitches(SEQUENCE) = {0, 127}
    /\ \E i \in DOMAIN sink : sink[i].op = "on" /\ sink[i].pitch = 127

\* ------------------------------------------------------------------ claims C17..C20
\* The beats values of a Score: one per event, one per pair of a per-note chord.
EventBeats(score) ==
    UNION {IF score[x[1]][x[2]].kind = "vchord"
           THEN Range(score[x[1]][x[2]].durs)
           ELSE {score[x[1]][x[2]].beats} :
           x \in {y \in (DOMAIN score) \X (1..8) : y[2] \in DOMAIN score[y[1]]}}

\* C17: every beats value of the compiled Score is positive, a file with the duration
\* literal 0 or a negative one does not compile, and no update sets off_ms earlier
\* than the clock it read.
C17_BeatsPositive ==
    /\ \A b \in EventBeats(SEQUENCE) : RLess(RZero, b)
    /\ \A l \in Dispatched : track_state[l].off_ms >= now

\* Tracks holding a Rest as their current event.
Resting == {l \in DOMAIN track_state : track_state[l].current = RestCur}

\* C18: while a Rest is running no note-on comes from its track, and an update that
\* reads a clock at or past the end of the Rest releases the track: it does not leave
\* the Rest as the track's current event.
C18_RestReleasesTrack ==
    lastOp \in TickOps =>
        \A l \in Resting :
            /\ now < track_state[l].off_ms => OnCallsFrom(sink, l) = 0
            /\ (tickInfo[l].disp = 0 /\ ~crashed) => now < track_state[l].off_ms

\* The part of C18 that holds: a track resting on a Rest emits no note-on.
C18_RestIsSilent ==
    lastOp \in TickOps =>
        \A l \in Resting : tickInfo[l].disp = 0 => OnCallsFrom(sink, l) = 0

\* Positions in a list of sink calls of the note-ons and note-offs of track l.
OnsOf(calls, l) == {i \in DOMAIN calls : calls[i].op = "on" /\ calls[i].src = l}
OffsOf(calls, l) == {i \in DOMAIN calls : calls[i].op = "off" /\ calls[i].src = l}

\* Tracks sounding pitch p whose off_ms the clock value t has reached.
DueTracksOf(ts, p, t) ==
    {l \in DOMAIN ts : /\ ts[l].current.kind = "notes"
                        /\ p \in Range(ts[l].current.pitches)
                        /\ t >= ts[l].off_ms}

\* C19: a track with a current event has off_ms = next_on_ms; in an update the
\* note-offs of a track come before its note-ons, a track that gets a new event has
\* had every pitch of its previous one turned off, and every note-off an update emits
\* is for an event whose off_ms the clock has reached.
C19_Step ==
    /\ \A l \in DOMAIN track_state' :
          track_state'[l].current # NoneCur =>
              track_state'[l].off_ms = track_state'[l].next_on_ms
    /\ (is_playing /\ lastOp' \in TickOps \cup {"autostop", "crash"}) =>
          /\ \A l \in DOMAIN track_state :
                /\ \A i \in OffsOf(sink', l) : \A j \in OnsOf(sink', l) : i < j
                /\ (OnsOf(sink', l) # {} /\ track_state[l].current.kind = "notes") =>
                      Range(track_state[l].current.pitches) =
                          {sink'[i].pitch : i \in OffsOf(sink', l)}
                /\ OffsOf(sink', l) # {} => now' >= track_state[l].off_ms
          /\ \A i \in DOMAIN sink' :
                sink'[i].op = "off" =>
                    DueTracksOf(track_state, sink'[i].pitch, now') # {}

C19_NoGapNoOverlap == [][C19_Step]_vars

\* An update that turned a note of a track off and its next note on.
C19_Witness ==
    /\ lastOp \in TickOps
    /\ \E l \in DOMAIN track_state : OffsOf(sink, l) # {} /\ OnsOf(sink, l) # {}

\* The cursor of a track state st against a track of n events.
CursorWithin(st, n) ==
    /\ -1 <= st.idx /\ st.idx <= n
    /\ st.finished <=> st.idx = n

\* Across an update: cursors do not decrease and finished tracks stay as they are.
CursorsAdvance ==
    lastOp' \in TickOps \cup {"crash"} =>
        \A l \in DOMAIN track_state \cap DOMAIN track_state' :
            /\ track_state'[l].idx >= track_state[l].idx
            /\ track_state[l].finished => track_state'[l] = track_state[l]

\* C20: during playback the cursor of each track never decreases across updates and
\* stays in -1..len(track) of the track it reads; finished holds exactly when the
\* cursor equals len(track), and an update leaves a finished track as it is.
C20_Step ==
    /\ \A l \in DOMAIN track_state' \cap DOMAIN SEQUENCE' :
          CursorWithin(track_state'[l], Len(SEQUENCE'[l]))
    /\ CursorsAdvance

C20_CursorMonotoneAndBounded == [][C20_Step]_vars

\* The same with the track length sequencer_start recorded in st['len'].
C20_StepStartLength ==
    /\ \A l \in DOMAIN track_state' : CursorWithin(track_state'[l], track_state'[l].len)
    /\ CursorsAdvance

C20_CursorWithinStartLength == [][C20_StepStartLength]_vars

\* An update that ran while one track was finished and another was not.
C20_WitnessFinishedKept ==
    /\ lastOp \in TickOps
    /\ \E l \in DOMAIN track_state :
          tickInfo[l].due = 0 /\ track_state[l].finished /\ tickInfo[l].ctrl = 0
              /\ \E m \in DOMAIN track_state : tickInfo[m].disp = 1

\* ------------------------------------------------------------------ claims C21 - C25
\* Track l of ts holds a variable-duration chord of score as its current event.
HoldsVChord(score, ts, l) ==
    /\ l \in DOMAIN score /\ l \in DOMAIN ts
    /\ ts[l].current.kind = "notes"
    /\ 0 <= ts[l].idx /\ ts[l].idx < Len(score[l])
    /\ score[l][ts[l].idx + 1].kind = "vchord"
    /\ ts[l].current.pitches = score[l][ts[l].idx + 1].pitches

\* The scale in force at position i of seq: 2*base/S of the nearest directive before
\* it when i is in that directive's group, 1 otherwise.
ScaleInForce(seq, i) ==
    IF NearestDirective(seq, i) > 0 /\ Compresses(seq, NearestDirective(seq, i), i)
    THEN GroupScale(seq, NearestDirective(seq, i))
    ELSE ROne

\* x ms is the truncated length of the longest of the durations ds, each times scale.
IsLongestMs(x, ds, scale, bpm) ==
    \E i \in DOMAIN ds :
        /\ \A j \in DOMAIN ds : RLeq(RMul(ds[j], scale), RMul(ds[i], scale))
        /\ IsTruncMs(x, RMul(ds[i], scale), bpm)

\* The pitches of the calls at the positions S of calls, in call order.
RECURSIVE PitchesAt(_, _)
PitchesAt(calls, S) ==
    IF S = {} THEN <<>>
    ELSE LET i == CHOOSE x \in S : \A y \in S : x <= y
         IN  <<calls[i].pitch>> \o PitchesAt(calls, S \ {i})

\* C21: a variable-duration chord has a single release point. The update that
\* schedules it turns every member on and sets off_ms = next_on_ms = now + the ms of
\* the longest effective member duration; the track turns its members off only in an
\* update whose clock has reached off_ms, and then all of them in that one update.
C21_Step ==
    (lastOp' \in TickOps \cup {"autostop", "crash"}) =>
        \A l \in Labels :
            /\ (HoldsVChord(SEQUENCE, track_state', l) /\ l \in DOMAIN tickInfo'
                    /\ tickInfo'[l].disp = 1) =>
                  LET ev == SEQUENCE[l][track_state'[l].idx + 1]
                  IN  /\ PitchesAt(sink', OnsOf(sink', l)) = ev.pitches
                      /\ track_state'[l].off_ms = track_state'[l].next_on_ms
                      /\ IsLongestMs(track_state'[l].off_ms - now', ev.durs,
                                     ScaleInForce(SEQUENCE[l], track_state'[l].idx + 1),
                                     BPM)
            /\ HoldsVChord(SEQUENCE, track_state, l) =>
                  \/ /\ OffsOf(sink', l) = {}
                     /\ (l \in DOMAIN track_state' /\ lastOp' # "crash")
                            => track_state'[l] = track_state[l]
                  \/ /\ PitchesAt(sink', OffsOf(sink', l)) = track_state[l].current.pitches
                     /\ now' >= track_state[l].off_ms

C21_SingleReleasePoint == [][C21_Step]_vars

\* An update past the end of the longest member of [C4:e E4:s] under Triole:q turned
\* both members off.
C21_Witness ==
    /\ lastOp \in TickOps /\ loaded = TextNested /\ SEQUENCE = ScoreOfFile[TextNested]
    /\ "R" \in DOMAIN track_state /\ track_state["R"].idx = 3
    /\ PitchesAt(sink, OffsOf(sink, "R")) = <<60, 64>>
    /\ now >= 666

\* The pitches of the current events of the tracks of ts.
SoundingOf(ts) ==
    UNION {Range(ts[l].current.pitches) : l \in {m \in DOMAIN ts : ts[m].current.kind = "notes"}}

\* C22: during playback a pitch is in PLAYING_SEQ_NOTES if and only if it belongs to
\* the current pitch set of at least one track.
C22_ActiveIsSounding == is_playing => PLAYING_SEQ_NOTES = SoundingOf(track_state)

\* The half of C22 that holds: every pitch of the set is sounding on some track.
C22_ActiveWithinSounding == is_playing => PLAYING_SEQ_NOTES \subseteq SoundingOf(track_state)

\* A track still holds a pitch that the note-off of the other track removed.
C22_WitnessRemoved ==
    /\ lastOp \in TickOps
    /\ \E l \in DOMAIN track_state : \E p \in SoundingOf(track_state) \ PLAYING_SEQ_NOTES :
          /\ track_state[l].current.kind = "notes"
          /\ p \in Range(track_state[l].current.pitches)
          /\ now < track_state[l].off_ms
          /\ \E i \in DOMAIN sink : sink[i].op = "off" /\ sink[i].pitch = p /\ sink[i].src # l

\* No playback state is left while idle.
IdleIsEmpty == ~is_playing => (track_state = NoTracks /\ PLAYING_SEQ_NOTES = {})

\* Across a step: idle states hold no playback state, an update while idle changes and
\* emits nothing, and the labels of track_state are those of the Score a Start found
\* and stay those until playback ends or starts again.
C23_Step ==
    /\ IdleIsEmpty'
    /\ (~is_playing /\ lastOp' \in TickOps \cup {"autostop", "crash"}) =>
          /\ UNCHANGED <<SEQUENCE, BPM, is_playing, track_state, PLAYING_SEQ_NOTES, now,
                         crashed, bal>>
          /\ sink' = NoSink
    /\ is_playing' =>
          IF lastOp' = "start" /\ AnyEvents(SEQUENCE)
          THEN DOMAIN track_state' = DOMAIN SEQUENCE
          ELSE is_playing /\ DOMAIN track_state' = DOMAIN track_state

\* C23: with is_playing false, track_state and PLAYING_SEQ_NOTES are empty and an
\* update changes nothing and emits nothing; with is_playing true, track_state has one
\* entry per label of the Score that was current at Start.
C23_StateOnlyWhilePlaying == IdleIsEmpty /\ [][C23_Step]_vars

\* An update that ran while idle after a playback had ended.
C23_Witness == lastOp = "tick" /\ ~is_playing /\ starts > 0 /\ track_state = NoTracks

\* Playing with the labels found at Start after a reload brought other labels.
C23_WitnessOtherLabels ==
    is_playing /\ lastOp \in TickOps /\ DOMAIN track_state # DOMAIN SEQUENCE

\* C24: after a reload during playback every update reads events only at indices
\* 0 <= cursor < len(track) of the track it is reading: no update raises IndexError.
C24_ReloadSafe == ~crashed

\* An update read past the end of a track that a reload had made shorter.
C24_WitnessShorter ==
    /\ crashed /\ lastOp = "crash" /\ reloads > 0
    /\ \E l \in DOMAIN track_state \cap DOMAIN SEQUENCE :
          /\ track_state[l].idx < track_state[l].len
          /\ track_state[l].idx >= Len(SEQUENCE[l])

\* The counters of a track state are well-formed.
TripletWellFormed(st) ==
    /\ 0 <= st.trip_remaining /\ st.trip_remaining <= 3
    /\ st.trip_remaining = 0 => st.trip_scale = ROne
    /\ st.finished => st.trip_remaining = 0

\* The count the directive at position j of seq sets: the size of its group, 0 when the
\* group is empty or its nominal sum is not positive.
GroupCount(seq, j) ==
    IF RLess(RZero, NominalSum(seq, GroupOf(seq, j)))
    THEN Cardinality(GroupOf(seq, j))
    ELSE 0

\* trip_remaining after an update on track l that consumed ctrl directives and
\* scheduled disp events, the cursor ending at position i of seq.
RemainingAfter(before, seq, i, ctrl, disp) ==
    LET atDispatch == IF ctrl = 0 THEN before
                      ELSE GroupCount(seq, IF disp = 1 THEN NearestDirective(seq, i)
                                           ELSE Len(seq))
    IN  IF disp = 1 /\ atDispatch > 0 THEN atDispatch - 1 ELSE atDispatch

\* C25: in every state each track has 0 <= trip_remaining <= 3, trip_scale = 1 when
\* trip_remaining = 0, and trip_remaining = 0 when it is finished; an update that
\* schedules an event lowers a positive trip_remaining by exactly one.
C25_Step ==
    /\ \A l \in DOMAIN track_state' : TripletWellFormed(track_state'[l])
    /\ (is_playing /\ lastOp' \in TickOps) =>
          \A l \in DOMAIN track_state \cap DOMAIN SEQUENCE :
              track_state'[l].trip_remaining =
                  RemainingAfter(track_state[l].trip_remaining, SEQUENCE[l],
                                 track_state'[l].idx + 1, tickInfo'[l].ctrl,
                                 tickInfo'[l].disp)

C25_TripletCountersWellFormed == [][C25_Step]_vars

\* A track finished in the middle of a triplet group.
C25_WitnessFinishedInGroup ==
    \E l \in DOMAIN track_state :
        track_state[l].finished /\ track_state[l].trip_remaining > 0

\* The last event of a group of three was scheduled and the scale is back at 1.
C25_WitnessGroupDone ==
    /\ lastOp \in TickOps /\ reloads = 0
    /\ \E l \in Dispatched :
          /\ track_state[l].trip_remaining = 0 /\ track_state[l].trip_scale = ROne
          /\ ~REq(tickInfo[l].eff, event_nominal_beats(SEQUENCE[l][track_state[l].idx + 1]))

====
